---- MODULE Spec2Model ----
(***************************************************************************)
(* Model of LaMDA-pytorch:                                                 *)
(*   src/dataloader/stream_dataloader.py  - packing, shuffling, batching   *)
(*   src/lamda_pytorch/lamda_pytorch.py   - relative position bias,        *)
(*                                          causal attention, model build  *)
(* Five specifications share the variables; each one drives one component  *)
(* and leaves the variables of the others at their idle values.            *)
(*   Spec       the packing function tokenize under stream_dataloaders     *)
(*   SpecLoad   shuffle buffer and DataLoader batching                     *)
(*   SpecBucket T5RelativePositionBias._relative_position_bucket           *)
(*   SpecAttn   Attention.forward                                          *)
(*   SpecBuild  lamda_model / LaMDA / Transformer / Attention constructors *)
(***************************************************************************)
EXTENDS Integers, Sequences, FiniteSets, TLC

VARIABLES
    \* ---- stream_dataloaders / tokenize
    seq_length,     \* args.tokenizer_seq_length
    status,         \* "config" | "built" | "error"
    calls,          \* the batches of examples handed to tokenize, in order
    outs,           \* the result dict tokenize returned for each call
    tokenized,      \* number of examples the tokenizer has been applied to
    \* ---- ShufflerIterDataPipe / DataLoader
    load,
    \* ---- _relative_position_bucket
    bucket,
    \* ---- Attention.forward
    att,
    \* ---- model construction
    build

vars == <<seq_length, status, calls, outs, tokenized, load, bucket, att, build>>

Idle == [pc |-> "idle"]

\* ------------------------------------------------------------------ bounds
MaxLen == 4
MaxCalls == 2
MaxExamples == 3
MaxTokens == 9
MaxBlocks == 4
MaxBuffer == 3
MaxBatch == 3
MaxBuckets == 5
MaxDistance == 8
MaxRel == 9
MaxSeq == 2
MaxScore == 1
MaxBias == 1
MaxHeads == 3
MaxDimHead == 3
MaxDepth == 2

\* ------------------------------------------------------------ list helpers
Min(a, b) == IF a <= b THEN a ELSE b
Max(a, b) == IF a >= b THEN a ELSE b

RECURSIVE Chain(_)
\* itertools.chain(*lists): the concatenation of a list of lists
Chain(ss) == IF ss = <<>> THEN <<>> ELSE Head(ss) \o Chain(Tail(ss))

\* Python's a // b (floor division) for b # 0
PyFloorDiv(a, b) == IF b > 0 THEN a \div b ELSE (0 - a) \div (0 - b)

\* Python's range(0, stop, step) for step # 0, as the sequence of its values
PyRange(stop, step) ==
    IF step > 0
    THEN LET cnt == IF stop > 0 THEN (stop + step - 1) \div step ELSE 0
         IN  [x \in 1..cnt |-> (x - 1) * step]
    ELSE LET cnt == IF stop < 0 THEN ((0 - stop) + (0 - step) - 1) \div (0 - step) ELSE 0
         IN  [x \in 1..cnt |-> (x - 1) * step]

\* Python's t[a : b] for 0 <= a: clipped to the end of the list
PySlice(t, a, b) == SubSeq(t, a + 1, Min(b, Len(t)))

\* ------------------------------------------------------------- tokenizer
\* The tokenizer is external: an example is represented by the token ids it
\* tokenizes to; the attention mask the tokenizer returns is 1 per token.
Tokenizer(examples) ==
    [input_ids      |-> examples,
     attention_mask |-> [e \in 1..Len(examples) |-> [p \in 1..Len(examples[e]) |-> 1]]]

\* ---------------------------------------------------------------- tokenize
\* total_length after lines 50-52 (seq_length # 0)
TotalLengthNoFloor(total, L) == total
TotalLength(total, L) ==
    IF total >= L THEN PyFloorDiv(total, L) * L ELSE total

\* [t[i : i + seq_length] for i in range(0, total_length, seq_length)]
ChunksOverlap(t, total, L) ==
    LET starts == PyRange(total, L)
    IN  [c \in 1..Len(starts) |-> PySlice(t, Max(starts[c] - 1, 0), starts[c] + L)]
Chunks(t, total, L) ==
    LET starts == PyRange(total, L)
    IN  [c \in 1..Len(starts) |-> PySlice(t, starts[c], starts[c] + L)]

\* the dict tokenize returns, for seq_length # 0
Tokenize(examples, L) ==
    LET enc   == Tokenizer(examples)
        ids   == Chain(enc.input_ids)
        mask  == Chain(enc.attention_mask)
        total == TotalLength(Len(ids), L)
        res   == [input_ids      |-> Chunks(ids, total, L),
                  attention_mask |-> Chunks(mask, total, L)]
    IN  [input_ids      |-> res.input_ids,
         attention_mask |-> res.attention_mask,
         labels         |-> res.input_ids]

\* the rows (Blocks) of a result dict, as the batched map emits them
Rows(res) ==
    [r \in 1..Len(res.input_ids) |->
        [input_ids      |-> res.input_ids[r],
         attention_mask |-> res.attention_mask[r],
         labels         |-> res.labels[r]]]

\* every Block emitted so far, in emission order
Blocks == Chain([c \in 1..Len(outs) |-> Rows(outs[c])])

\* the token ids of a call's examples, concatenated
CallTokens(c) == Chain(calls[c])

\* all token ids delivered so far
Stream == Chain([c \in 1..Len(calls) |-> CallTokens(c)])

\* batches of examples, given by the number of tokens of each example (an
\* example may tokenize to nothing); token ids are numbered by their position
\* in the stream
ExampleLens(maxExamples, maxTokens) ==
    UNION {[1..m -> 0..maxTokens] : m \in 1..maxExamples}

RECURSIVE MakeExamples(_, _)
MakeExamples(lens, from) ==
    IF lens = <<>> THEN <<>>
    ELSE <<[p \in 1..Head(lens) |-> from + p]>> \o MakeExamples(Tail(lens), from + Head(lens))

RECURSIVE SumSeq(_)
SumSeq(s) == IF s = <<>> THEN 0 ELSE Head(s) + SumSeq(Tail(s))

PackInit ==
    /\ seq_length \in (0 - 2)..MaxLen
    /\ status = "config"
    /\ calls = <<>>
    /\ outs = <<>>
    /\ tokenized = 0

\* the packing variables while another component is being driven
PackIdle ==
    /\ seq_length = 1
    /\ status = "idle"
    /\ calls = <<>>
    /\ outs = <<>>
    /\ tokenized = 0

\* stream_dataloaders: builds the lazy pipeline; nothing is read from the
\* dataset and seq_length is not looked at.
StreamDataloaders ==
    /\ status = "config"
    /\ status' = "built"
    /\ UNCHANGED <<seq_length, calls, outs, tokenized, load, bucket, att, build>>

\* one call of tokenize by the batched map
TokenizeCall ==
    /\ status = "built"
    /\ Len(calls) < MaxCalls
    /\ \E lens \in ExampleLens(MaxExamples - tokenized, MaxTokens - Len(Stream)) :
          /\ SumSeq(lens) <= MaxTokens - Len(Stream)
          /\ LET examples == MakeExamples(lens, Len(Stream))
             IN  /\ calls' = Append(calls, examples)
                 /\ tokenized' = tokenized + Len(examples)
                 /\ IF seq_length = 0
                    THEN \* total_length // seq_length raises ZeroDivisionError
                         /\ status' = "error"
                         /\ outs' = outs
                    ELSE /\ status' = status
                         /\ outs' = Append(outs, Tokenize(examples, seq_length))
    /\ UNCHANGED <<seq_length, load, bucket, att, build>>

OtherIdle ==
    /\ load = Idle
    /\ bucket = Idle
    /\ att = Idle
    /\ build = Idle

Init == PackInit /\ OtherIdle

Next == StreamDataloaders \/ TokenizeCall

Spec == Init /\ [][Next]_vars

\* ------------------------------------------------------- claims: packing
BlockIds == [b \in 1..Len(Blocks) |-> Blocks[b].input_ids]

\* C1 (as claimed): for L > 0, every emitted Block has exactly L token ids,
\* L attention-mask entries and L labels, and its labels equal its token ids,
\* also when a batch holds fewer than L tokens.
C1_EveryBlockHasLengthL ==
    seq_length > 0 =>
        \A b \in 1..Len(Blocks) :
            /\ Len(Blocks[b].input_ids) = seq_length
            /\ Len(Blocks[b].attention_mask) = seq_length
            /\ Len(Blocks[b].labels) = seq_length
            /\ Blocks[b].labels = Blocks[b].input_ids

\* C2 (as claimed), on streams in which every call delivers at least L
\* tokens: the emitted token ids, concatenated, are the first floor(T/L)*L
\* tokens of the whole stream, the leftover of a call being consumed first by
\* the next call.
C2_LeftoverCarriedOver ==
    (/\ seq_length > 0
     /\ \A c \in 1..Len(calls) : Len(CallTokens(c)) >= seq_length)
    => Chain(BlockIds) = SubSeq(Stream, 1, (Len(Stream) \div seq_length) * seq_length)

\* the number of tokens of call c that the code emits
KeptLen(c) ==
    LET T == Len(CallTokens(c))
    IN  IF T >= seq_length THEN (T \div seq_length) * seq_length ELSE T

\* C2 (amended): every call is packed on its own. For L > 0 the emitted token
\* ids, concatenated in emission order, are the concatenation call by call of
\* a prefix of that call's own tokens: its first floor(Tc/L)*L tokens when
\* Tc >= L (all Tc tokens when Tc < L); what a call leaves over is dropped
\* and never reaches the next call.
C2_PerCallPrefix ==
    seq_length > 0 =>
        /\ Len(outs) = Len(calls)
        /\ Chain(BlockIds) =
              Chain([c \in 1..Len(calls) |-> SubSeq(CallTokens(c), 1, KeptLen(c))])

\* two calls, each with at least L tokens, the first leaving a remainder that
\* the second does not pick up
C2_Witness ==
    /\ seq_length = 2
    /\ Len(calls) = 2
    /\ CallTokens(1) = <<1, 2, 3>>
    /\ CallTokens(2) = <<4, 5, 6>>
    /\ BlockIds = << <<1, 2>>, <<4, 5>> >>

\* C3: a single call whose examples concatenate to T >= L tokens emits
\* exactly floor(T/L) Blocks, the k-th being tokens [k*L, (k+1)*L) of the
\* concatenation wherever the example boundaries fall; the last T mod L
\* tokens are dropped.
C3_SingleCallSlices ==
    seq_length > 0 =>
        \A c \in 1..Len(outs) :
            LET T == Len(CallTokens(c))
            IN  T >= seq_length =>
                  /\ Len(outs[c].input_ids) = T \div seq_length
                  /\ \A x \in 1..Len(outs[c].input_ids) :
                        outs[c].input_ids[x] =
                            SubSeq(CallTokens(c), (x - 1) * seq_length + 1, x * seq_length)

\* L = 4 and tokens 1..9, given as two examples whose boundary falls inside
\* the second Block
C3_Witness ==
    /\ seq_length = 4
    /\ Len(calls) >= 1
    /\ calls[1] = << <<1, 2, 3, 4, 5, 6>>, <<7, 8, 9>> >>
    /\ outs[1].input_ids = << <<1, 2, 3, 4>>, <<5, 6, 7, 8>> >>

\* C7 (as claimed): with L <= 0 building the pipeline rejects the
\* configuration: the pipeline is never built, no example is tokenized and no
\* result is produced.
C7_NonPositiveLengthRejected ==
    seq_length <= 0 =>
        /\ status # "built"
        /\ tokenized = 0
        /\ outs = <<>>

\* ============================================= shuffle buffer and batching
\* load.M        length of the Block stream (Blocks are numbered 1..M)
\* load.B        capacity of the shuffle buffer
\* load.N        args.batch_size
\* load.nextIn   number of Blocks read from the stream so far
\* load.buffer   the reservoir
\* load.shuffled the Blocks the shuffler has yielded, in order
\* load.taken    how many of them the DataLoader has taken
\* load.pending  the batch being filled
\* load.batches  the batches emitted
\* load.pc       "run" | "done"

\* DataLoader(..., drop_last = True, ...)
DropLastOff == FALSE
DropLast == TRUE

\* the newcomer x takes the slot vacated by the emitted resident
SwapInKeepResident(buf, idx, x) == buf
SwapIn(buf, idx, x) == [buf EXCEPT ![idx] = x]

\* draining: the last resident moves into the vacated slot, the list shrinks
DrainOut(buf, idx) ==
    SubSeq([buf EXCEPT ![idx] = buf[Len(buf)]], 1, Len(buf) - 1)

LoadInit ==
    /\ \E M \in 0..MaxBlocks, B \in 1..MaxBuffer, N \in 1..MaxBatch :
          load = [pc |-> "run", M |-> M, B |-> B, N |-> N, nextIn |-> 0,
                  buffer |-> <<>>, shuffled |-> <<>>, taken |-> 0,
                  pending |-> <<>>, batches |-> <<>>]

\* the shuffler runs only while its consumer waits for the next element
Pulled == load.pc = "run" /\ load.taken = Len(load.shuffled)

\* fill the buffer with the first B elements
ShuffleFill ==
    /\ Pulled
    /\ load.nextIn < load.M
    /\ Len(load.buffer) < load.B
    /\ load' = [load EXCEPT !.nextIn = @ + 1,
                            !.buffer = Append(@, load.nextIn + 1)]
    /\ UNCHANGED <<seq_length, status, calls, outs, tokenized, bucket, att, build>>

\* buffer full: emit a randomly chosen resident, the newcomer takes its slot
ShuffleSwap ==
    /\ Pulled
    /\ load.nextIn < load.M
    /\ Len(load.buffer) = load.B
    /\ \E idx \in 1..Len(load.buffer) :
          load' = [load EXCEPT !.nextIn = @ + 1,
                               !.shuffled = Append(@, load.buffer[idx]),
                               !.buffer = SwapIn(@, idx, load.nextIn + 1)]
    /\ UNCHANGED <<seq_length, status, calls, outs, tokenized, bucket, att, build>>

\* input exhausted: drain the residents in random order
ShuffleDrain ==
    /\ Pulled
    /\ load.nextIn = load.M
    /\ load.buffer # <<>>
    /\ \E idx \in 1..Len(load.buffer) :
          load' = [load EXCEPT !.shuffled = Append(@, load.buffer[idx]),
                               !.buffer = DrainOut(@, idx)]
    /\ UNCHANGED <<seq_length, status, calls, outs, tokenized, bucket, att, build>>

\* the DataLoader takes the yielded Block; N Blocks make a batch
BatchTake ==
    /\ load.pc = "run"
    /\ load.taken < Len(load.shuffled)
    /\ LET grown == Append(load.pending, load.shuffled[load.taken + 1])
       IN  IF Len(grown) = load.N
           THEN load' = [load EXCEPT !.taken = @ + 1,
                                     !.pending = <<>>,
                                     !.batches = Append(@, grown)]
           ELSE load' = [load EXCEPT !.taken = @ + 1,
                                     !.pending = grown]
    /\ UNCHANGED <<seq_length, status, calls, outs, tokenized, bucket, att, build>>

\* the stream ends: an incomplete batch is emitted only without drop_last
BatchEnd ==
    /\ Pulled
    /\ load.nextIn = load.M
    /\ load.buffer = <<>>
    /\ load' = [load EXCEPT !.pc = "done",
                            !.pending = <<>>,
                            !.batches = IF load.pending # <<>> /\ ~DropLast
                                        THEN Append(@, load.pending)
                                        ELSE @]
    /\ UNCHANGED <<seq_length, status, calls, outs, tokenized, bucket, att, build>>

InitLoad == PackIdle /\ LoadInit /\ bucket = Idle /\ att = Idle /\ build = Idle

NextLoad == ShuffleFill \/ ShuffleSwap \/ ShuffleDrain \/ BatchTake \/ BatchEnd

SpecLoad == InitLoad /\ [][NextLoad]_vars

\* ------------------------------------------- claims: batching and shuffling
Elems(s) == {s[x] : x \in 1..Len(s)}

\* C4: for batch size N >= 1 and a Block stream of length M, exactly
\* floor(M/N) batches are emitted, each of exactly N Blocks; a trailing group
\* of fewer than N Blocks is never emitted.
C4_BatchesOfExactlyN ==
    load.pc # "idle" =>
        /\ \A x \in 1..Len(load.batches) : Len(load.batches[x]) = load.N
        /\ load.pc = "done" => Len(load.batches) = load.M \div load.N

\* a stream of N + k Blocks, 0 < k < N, has ended with exactly one batch
C4_Witness ==
    /\ load.pc = "done"
    /\ load.N = 3
    /\ load.M = 4
    /\ Len(load.batches) = 1

\* C9: for capacity B >= 1 and a finite input stream the shuffle buffer
\* outputs a permutation of its input: no element is lost or duplicated (the
\* elements read so far are exactly those emitted plus those resident, each
\* once), all M are emitted once the buffer is drained, and the reservoir
\* never holds more than B elements.
C9_ShufflePermutes ==
    load.pc # "idle" =>
        /\ Len(load.buffer) <= load.B
        /\ Elems(load.shuffled) \cup Elems(load.buffer) = 1..load.nextIn
        /\ Len(load.shuffled) + Len(load.buffer) = load.nextIn
        /\ load.pc = "done" =>
              /\ Len(load.shuffled) = load.M
              /\ Elems(load.shuffled) = 1..load.M

\* a stream longer than the buffer has been shuffled out of order
C9_Witness ==
    /\ load.pc = "done"
    /\ load.B = 2
    /\ load.M = 4
    /\ load.shuffled = <<2, 1, 4, 3>>

\* =============================================== relative position buckets
\* bucket.num_buckets, bucket.max_distance   the arguments
\* bucket.rel       two relative positions (key position - query position)
\* bucket.trunc     per position: whether the float quotient of line 85, when
\*                  it is mathematically an integer, comes out just below it
\* bucket.out       the two buckets returned
\* bucket.pc        "args" | "ret"

RECURSIVE Pow(_, _)
Pow(a, e) == IF e = 0 THEN 1 ELSE a * Pow(a, e - 1)

\* n = max(-relative_position, 0)
Distance(rel) == Max(0 - rel, 0)

\* (log(n / max_exact) / log(max_distance / max_exact) * k).long(), for
\* n >= max_exact >= 1 and max_distance > max_exact. The truncated quotient is
\* at least t exactly when n^k * max_exact^t >= max_distance^t * max_exact^k;
\* it is computed up to k, beyond which line 86 alone decides the result.
LogScaled(n, max_exact, max_distance, k, truncDown) ==
    LET AtLeast(t) == Pow(n, k) * Pow(max_exact, t) >= Pow(max_distance, t) * Pow(max_exact, k)
        Exactly(t) == Pow(n, k) * Pow(max_exact, t) = Pow(max_distance, t) * Pow(max_exact, k)
        fl == CHOOSE t \in 0..k : AtLeast(t) /\ (t = k \/ ~AtLeast(t + 1))
    IN  IF truncDown /\ fl > 0 /\ Exactly(fl) THEN fl - 1 ELSE fl

\* torch.min(val_if_large, torch.full_like(val_if_large, num_buckets - 1))
CapBucketMissing(val, num_buckets) == val
CapBucket(val, num_buckets) == Min(val, num_buckets - 1)

\* _relative_position_bucket, for one element of the tensor
RelativePositionBucket(relative_position, num_buckets, max_distance, truncDown) ==
    LET n == Distance(relative_position)
        max_exact == num_buckets \div 2
        is_small == n < max_exact
        val_if_large ==
            CapBucket(max_exact + LogScaled(n, max_exact, max_distance,
                                            num_buckets - max_exact, truncDown),
                      num_buckets)
    IN  IF is_small THEN n ELSE val_if_large

BucketInit ==
    \E nb \in 2..MaxBuckets, r1 \in (0 - MaxRel)..1, r2 \in (0 - MaxRel)..1,
       t1 \in BOOLEAN, t2 \in BOOLEAN :
       \E md \in (nb \div 2 + 1)..MaxDistance :
          /\ (Distance(r1) = Distance(r2)) => (t1 = t2)
          /\ bucket = [pc |-> "args", num_buckets |-> nb, max_distance |-> md,
                       rel |-> <<r1, r2>>, trunc |-> <<t1, t2>>, out |-> <<>>]

BucketCall ==
    /\ bucket.pc = "args"
    /\ bucket' = [bucket EXCEPT
          !.pc = "ret",
          !.out = [x \in 1..2 |->
                      RelativePositionBucket(bucket.rel[x], bucket.num_buckets,
                                             bucket.max_distance, bucket.trunc[x])]]
    /\ UNCHANGED <<seq_length, status, calls, outs, tokenized, load, att, build>>

InitBucket == PackIdle /\ BucketInit /\ load = Idle /\ att = Idle /\ build = Idle

NextBucket == BucketCall

SpecBucket == InitBucket /\ [][NextBucket]_vars

\* C6: for num_buckets >= 2, max_distance > num_buckets // 2 and distances
\* d1 <= d2 (query position - key position, clamped at 0) the buckets satisfy
\* b1 <= b2, both lie in [0, num_buckets), and distance 0 maps to bucket 0.
C6_BucketsMonotoneInRange ==
    bucket.pc = "ret" =>
        /\ \A x \in 1..2 : bucket.out[x] \in 0..(bucket.num_buckets - 1)
        /\ \A x \in 1..2 : Distance(bucket.rel[x]) = 0 => bucket.out[x] = 0
        /\ \A x, y \in 1..2 :
              Distance(bucket.rel[x]) <= Distance(bucket.rel[y])
                  => bucket.out[x] <= bucket.out[y]

\* num_buckets = 4, max_distance = 8: distances 4 and 8 both fall in the
\* logarithmic regime, 8 being capped to the last bucket
C6_Witness ==
    /\ bucket.pc = "ret"
    /\ bucket.num_buckets = 4
    /\ bucket.max_distance = 8
    /\ Distance(bucket.rel[1]) = 4
    /\ Distance(bucket.rel[2]) = 8
    /\ bucket.out[1] \in {2, 3}
    /\ bucket.out[2] = 3

\* ======================================================= Attention.forward
\* One (batch, head) slice of a self-attention call on a sequence of length
\* att.n; the mask and the bias do not depend on batch or head.
\* att.q, att.k  per position, the scaled query and the key (one feature)
\* att.emb       relative_attention_bias for the buckets 0..n-1, scaled
\* att.sim       the scores after the relative position bias was added
\* att.masked    the scores after masked_fill
\* att.attn      the softmax numerators; att.den the row sums
\* att.pc        "in" | "out"

\* defaults of T5RelativePositionBias.__init__, which Attention relies on
DefaultNumBuckets == 32
DefaultMaxDistance == 128

\* torch.finfo(sim.dtype).max. A stand-in: what matters is that it is finite
\* and exceeds every score by more than the range of exp, as the float32
\* value does.
FMax == 1000000

\* exp(-d) is 0 in floating point once d exceeds this (in units of ln 2)
ExpUnderflow == 20

Exp2Neg(d) == IF d > ExpUnderflow THEN 0 ELSE Pow(2, ExpUnderflow - d)

\* torch.ones((i, j)).triu(j - i + 1): entry (r, c), rows and columns from 1
CausalMaskShifted(r, c, i, j) == c - r >= j - i + 2
CausalMask(r, c, i, j) == c - r >= j - i + 1

\* rel_pos_bias(sim): sim + bias, bias from the bucket of k_pos - q_pos
RelPosBias(sim, emb, i, j) ==
    [r \in 1..i |-> [c \in 1..j |->
        sim[r][c] + emb[RelativePositionBucket(c - r, DefaultNumBuckets,
                                               DefaultMaxDistance, FALSE) + 1]]]

\* sim.masked_fill(causal_mask, -torch.finfo(sim.dtype).max)
MaskedFill(sim, i, j) ==
    [r \in 1..i |-> [c \in 1..j |->
        IF CausalMask(r, c, i, j) THEN 0 - FMax ELSE sim[r][c]]]

RECURSIVE SeqMax(_)
SeqMax(row) ==
    IF Len(row) = 1 THEN row[1] ELSE Max(Head(row), SeqMax(Tail(row)))

\* sim.softmax(dim = -1): exp(x - rowmax), before division by the row sum
SoftmaxNum(sim, i, j) ==
    [r \in 1..i |-> [c \in 1..j |-> Exp2Neg(SeqMax(sim[r]) - sim[r][c])]]

AttInit ==
    \E n \in 1..MaxSeq :
       \E q \in [1..n -> (0 - 1)..MaxScore], k \in [1..n -> (0 - 1)..MaxScore],
          emb \in [1..n -> 0..MaxBias] :
          att = [pc |-> "in", n |-> n, q |-> q, k |-> k, emb |-> emb,
                 sim |-> <<>>, masked |-> <<>>, attn |-> <<>>, den |-> <<>>]

AttentionForward ==
    /\ att.pc = "in"
    /\ LET n      == att.n
           dots   == [r \in 1..n |-> [c \in 1..n |-> att.q[r] * att.k[c]]]
           sim    == RelPosBias(dots, att.emb, n, n)
           masked == MaskedFill(sim, n, n)
           num    == SoftmaxNum(masked, n, n)
       IN  att' = [att EXCEPT !.pc = "out", !.sim = sim, !.masked = masked,
                              !.attn = num,
                              !.den = [r \in 1..n |-> SumSeq(num[r])]]
    /\ UNCHANGED <<seq_length, status, calls, outs, tokenized, load, bucket, build>>

InitAttn == PackIdle /\ AttInit /\ load = Idle /\ bucket = Idle /\ build = Idle

NextAttn == AttentionForward

SpecAttn == InitAttn /\ [][NextAttn]_vars

\* C5: in a self-attention call on a sequence of length n, for every query
\* position i and key position j > i the score, after the bias was added, is
\* replaced by the most negative representable value, and the attention
\* weight from i to j after softmax is exactly 0.
C5_FutureKeysMasked ==
    att.pc = "out" =>
        \A r \in 1..att.n, c \in 1..att.n :
            c > r => /\ att.masked[r][c] = 0 - FMax
                     /\ att.attn[r][c] = 0
                     /\ att.den[r] > 0

\* the future key had the largest biased score of row 1 and got weight 0
C5_Witness ==
    /\ att.pc = "out"
    /\ att.n = 2
    /\ att.sim[1][2] > att.sim[1][1]
    /\ att.attn[1][2] = 0
    /\ att.attn[1][1] > 0

\* ====================================================== model construction
\* build.cfg     the configuration: the fields lamda_model reads, and the two
\*               relative position options the interface description lists
\* build.args    the arguments as Transformer.__init__ receives them
\* build.layers  the attention / feedforward pairs appended so far
\* build.pc      "cfg" | "layers" | "done"

\* T5RelativePositionBias.__init__(scale, num_buckets, max_distance, heads)
T5RelativePositionBiasInit(scale_sq, num_buckets, max_distance, heads) ==
    [scale_sq     |-> scale_sq,           \* scale squared: scale = dim_head ** 0.5
     num_buckets  |-> num_buckets,
     max_distance |-> max_distance,
     relative_attention_bias |-> [rows |-> num_buckets, cols |-> heads]]

\* Attention.__init__(dim, heads, dim_head)
AttentionInit(dim, heads, dim_head) ==
    LET inner_dim == heads * dim_head
    IN  [heads  |-> heads,
         to_q   |-> [in_features |-> dim, out_features |-> inner_dim],
         to_kv  |-> [in_features |-> dim, out_features |-> dim_head * 2],
         to_out |-> [in_features |-> inner_dim, out_features |-> dim],
         rel_pos_bias |->
             T5RelativePositionBiasInit(dim_head, DefaultNumBuckets,
                                        DefaultMaxDistance, heads)]

\* FeedForward.__init__(dim), mult = 4
FeedForwardInit(dim) ==
    LET inner_dim == dim * 4
    IN  [net_in  |-> [in_features |-> dim, out_features |-> inner_dim * 2],
         net_out |-> [in_features |-> inner_dim, out_features |-> dim]]

\* one iteration of the loop of Transformer.__init__(dim, depth, heads, dim_head)
TransformerLayer(dim, heads, dim_head) ==
    [attn |-> AttentionInit(dim, heads, dim_head), ff |-> FeedForwardInit(dim)]

\* Transformer(dim, depth, dim_head, heads) in LaMDA.__init__: the arguments
\* are positional, the parameters are (dim, depth, heads, dim_head)
TransformerArgs(dim, depth, dim_head, heads) ==
    [dim |-> dim, depth |-> depth, heads |-> dim_head, dim_head |-> heads]

BuildInit ==
    \E heads \in 1..MaxHeads, dim_head \in 1..MaxDimHead, depth \in 1..MaxDepth,
       nb \in {16, DefaultNumBuckets}, md \in {64, DefaultMaxDistance} :
       build = [pc |-> "cfg",
                cfg |-> [num_tokens |-> 8, dim |-> 4, depth |-> depth,
                         dim_head |-> dim_head, heads |-> heads,
                         relative_position_buckets |-> nb,
                         relative_position_max_distance |-> md],
                token_emb |-> <<>>, args |-> <<>>, layers |-> <<>>,
                to_logits |-> <<>>]

\* lamda_model -> LaMDA.__init__ up to the call of Transformer
LamdaModel ==
    /\ build.pc = "cfg"
    /\ LET c == build.cfg
       IN  build' = [build EXCEPT
              !.pc = "layers",
              !.token_emb = [rows |-> c.num_tokens, cols |-> c.dim],
              !.args = TransformerArgs(c.dim, c.depth, c.dim_head, c.heads)]
    /\ UNCHANGED <<seq_length, status, calls, outs, tokenized, load, bucket, att>>

\* for _ in range(depth): self.layers.append(...)
AppendLayer ==
    /\ build.pc = "layers"
    /\ Len(build.layers) < build.args.depth
    /\ build' = [build EXCEPT
          !.layers = Append(@, TransformerLayer(build.args.dim, build.args.heads,
                                                build.args.dim_head))]
    /\ UNCHANGED <<seq_length, status, calls, outs, tokenized, load, bucket, att>>

\* the rest of LaMDA.__init__: to_logits
BuildDone ==
    /\ build.pc = "layers"
    /\ Len(build.layers) = build.args.depth
    /\ build' = [build EXCEPT
          !.pc = "done",
          !.to_logits = [in_features |-> build.cfg.dim,
                         out_features |-> build.cfg.num_tokens]]
    /\ UNCHANGED <<seq_length, status, calls, outs, tokenized, load, bucket, att>>

InitBuild == PackIdle /\ BuildInit /\ load = Idle /\ bucket = Idle /\ att = Idle

NextBuild == LamdaModel \/ AppendLayer \/ BuildDone

SpecBuild == InitBuild /\ [][NextBuild]_vars

\* C8 (as claimed): in a model built with heads = H and dim_head = K every
\* attention layer projects queries with exactly H heads of size K each and
\* keys and values with a single shared head of size K.
C8_HeadsAndHeadSize ==
    build.pc = "done" =>
        \A x \in 1..Len(build.layers) :
            LET a == build.layers[x].attn
            IN  /\ a.heads = build.cfg.heads
                /\ a.to_q.out_features = build.cfg.heads * build.cfg.dim_head
                /\ a.to_q.out_features \div a.heads = build.cfg.dim_head
                /\ a.to_kv.out_features = 2 * build.cfg.dim_head

\* C10 (as claimed): the configured relative_position_buckets and
\* relative_position_max_distance take effect in every attention layer's
\* relative position bias, whose embedding table has the configured number
\* of buckets.
C10_BucketOptionsTakeEffect ==
    build.pc = "done" =>
        \A x \in 1..Len(build.layers) :
            LET rpb == build.layers[x].attn.rel_pos_bias
            IN  /\ rpb.num_buckets = build.cfg.relative_position_buckets
                /\ rpb.max_distance = build.cfg.relative_position_max_distance
                /\ rpb.relative_attention_bias.rows = build.cfg.relative_position_buckets

====
